---- MODULE Spec2Model ----
(***************************************************************************)
(* Model of the speech pipeline of src/script.js: the AudioQueue class     *)
(* (reassembly buffer, ready queue, single-flight playback), the Audio     *)
(* elements it drives, and sendMessage (text stream segmentation and       *)
(* synthesis dispatch), and the speech recognition capture (startRecording, *)
(* stopRecording, the recognition WebSocket and the audio worklet), and the *)
(* AudioProcessor of src/static/audio-processor.js (framing of the capture). *)
(*                                                                         *)
(* JavaScript runs every handler to completion on one thread, so each      *)
(* handler is one atomic action; the interleaving is that of the event     *)
(* loop's tasks (user input, network completions, media element events).  *)
(***************************************************************************)
EXTENDS Integers, Sequences, FiniteSets, TLC

\* ------------------------------------------------------------------ bounds
MaxSessions == 2    \* startSession() calls explored
MaxUnits == 3       \* utterance units one generation may emit
MaxJobs == 4        \* synthesis requests dispatched, over all generations
MaxFragments == 3   \* content lines one generation may receive
MaxSegBuf == 4      \* characters ttsBuffer may hold between two lines
MaxSockets == 2     \* recognition channels opened (startRecording calls granted)
MaxWire == 2        \* messages the client sends on one recognition channel
MaxSamples == 1100  \* samples the AudioProcessor is given

\* ------------------------------------------------------------ text domain
\* A string is a sequence of one-character strings.
NL == "\n"
Whitespace == {" ", NL}
\* const punctuations = /[<5 full-width marks>,.!?;:\n]/
\* (the five full-width marks are written by their code points)
Punctuations ==
    { "U+FF0C", "U+3002", "U+FF01", "U+FF1F", "U+FF1B",
      ",", ".", "!", "?", ";", ":", NL }

\* Fragments (data.content values) the text stream delivers.  In Spec, where
\* the queue and the playback are explored, every content line carries one
\* sentence; SegSpec explores the segmentation itself.
Fragments == { <<"a", ".">> }

Hello == << "H", "e", "l", "l", "o", ",", " " >>
World == << "w", "o", "r", "l", "d", ".", " ", "H", "o", "w" >>
AreYou == << " ", "a", "r", "e", " ", "y", "o", "u", "?" >>

SegFragments ==
    { Hello, World, AreYou,
      <<"a">>, <<".">>, <<" ">>, <<NL>>, <<"a", ".", " ", "b", "!">>,
      <<" ", ";", "a">> }

VARIABLES
    queue,              \* AudioQueue.queue: object URLs ready to play, in order
    isPlaying,          \* AudioQueue.isPlaying
    currentAudio,       \* AudioQueue.currentAudio: the unit of the element, or Null
    pendingAudios,      \* AudioQueue.pendingAudios: index -> blob
    nextIndex,          \* AudioQueue.nextIndex
    currentSessionId,   \* AudioQueue.currentSessionId
    audios,             \* Audio elements that still sound or still owe a callback
    jobs,               \* synthesis requests in flight
    gens,               \* sendMessage activations: session id -> closure state
    released,           \* history: units pushed on the ready queue this session
    started,            \* history: units that began playback this session
    dropped,            \* history: indices of this session's units whose job was dropped
    lastOp              \* history: the last call into the AudioQueue (method or callback)

VARIABLES
    asrSocket,          \* let asrSocket: the WebSocket created last, or Undefined
    isRecording,        \* let isRecording
    audioContext,       \* let audioContext: the AudioContext created last, or Undefined
    chatInput,          \* chatInput.value
    asrStatus,          \* asrStatus.textContent
    sockets,            \* WebSockets created: id -> readyState
    contexts,           \* AudioContexts created: id -> [closed, loaded, node]
    opening,            \* sockets whose onopen waits for audioWorklet.addModule
    mediaRequests,      \* startRecording calls waiting for getUserMedia
    wire,               \* history: what was sent on each socket, in order
    stopRequested,      \* history: did a stop request reach the session, and when
    finalHeard          \* history: the text of the final update delivered last

aqVars == << queue, isPlaying, currentAudio, pendingAudios, nextIndex,
             currentSessionId, audios, jobs, gens, released, started, dropped,
             lastOp >>

asrVars == << asrSocket, isRecording, audioContext, chatInput, asrStatus, sockets,
              contexts,
              opening, mediaRequests, wire, stopRequested, finalHeard >>

\* AudioProcessor: this.bufferSize = 512
bufferSize == 512

VARIABLES
    buffer,             \* AudioProcessor.buffer: Int16Array(bufferSize), index -> value
    bufferIndex,        \* AudioProcessor.bufferIndex
    posted,             \* history: the frames given to port.postMessage, in order
    consumed            \* history: the number of samples process() was given

framerVars == << buffer, bufferIndex, posted, consumed >>

vars == << aqVars, asrVars, framerVars >>

Null == << >>

\* the value of a variable declared and not yet assigned (also used for the
\* null that stopRecording assigns to audioContext)
Undefined == 0

\* A blob (and the object URL made from it) is named by the job that produced
\* it: << session id, index >>.
Blob(sid, idx) == << sid, idx >>

\* ---------------------------------------------------------------- helpers
Put(f, k, v) == [x \in (DOMAIN f) \cup {k} |-> IF x = k THEN v ELSE f[x]]
Remove(f, k) == [x \in (DOMAIN f) \ {k} |-> f[x]]
Empty == [x \in {} |-> Null]

\* --------------------------------------------------------- the AudioQueue
\* The queue object (with the Audio elements it created and the histories)
\* as one record, so that the methods compose as they call each other.
AQ ==
    [ queue |-> queue, isPlaying |-> isPlaying, currentAudio |-> currentAudio,
      pendingAudios |-> pendingAudios, nextIndex |-> nextIndex,
      currentSessionId |-> currentSessionId, audios |-> audios,
      released |-> released, started |-> started ]

SetAQ(r) ==
    \E q \in {r} :
    /\ queue' = q.queue
    /\ isPlaying' = q.isPlaying
    /\ currentAudio' = q.currentAudio
    /\ pendingAudios' = q.pendingAudios
    /\ nextIndex' = q.nextIndex
    /\ currentSessionId' = q.currentSessionId
    /\ audios' = q.audios
    /\ released' = q.released
    /\ started' = q.started

\* (mutant of processQueue) the unit appended last is played first
processQueueLast(q) ==
    IF q.isPlaying \/ q.queue = << >>
    THEN q
    ELSE LET url == q.queue[Len(q.queue)]
         IN  [q EXCEPT !.isPlaying = TRUE,
                       !.queue = SubSeq(q.queue, 1, Len(q.queue) - 1),
                       !.currentAudio = url,
                       !.audios = Put(q.audios, url, "starting"),
                       !.started = Append(q.started, url)]

\* (mutant of processQueue) the head is played but stays in the ready queue
processQueueKeep(q) ==
    IF q.isPlaying \/ q.queue = << >>
    THEN q
    ELSE LET url == Head(q.queue)
         IN  [q EXCEPT !.isPlaying = TRUE,
                       !.currentAudio = url,
                       !.audios = Put(q.audios, url, "starting"),
                       !.started = Append(q.started, url)]

\* An Audio element is kept in `audios` while it sounds or still owes a
\* callback:
\*   "starting"  play() called, its promise pending
\*   "playing"   play() fulfilled, the unit is audible
\*   "aborted"   paused by stop() while the promise was pending: the promise
\*               is rejected (AbortError) in a later task
\* An element that ended, failed or was paused while playing is silent and
\* owes nothing: it is dropped from `audios`.
\* processQueue(): lines 589-613
processQueue(q) ==
    IF q.isPlaying \/ q.queue = << >>
    THEN q
    ELSE LET url == Head(q.queue)
         IN  [q EXCEPT !.isPlaying = TRUE,
                       !.queue = Tail(q.queue),
                       !.currentAudio = url,
                       !.audios = Put(q.audios, url, "starting"),
                       !.started = Append(q.started, url)]

\* the while loop of processBuffer(): lines 577-584.
\* loopEnd: the value of nextIndex at which the loop condition first fails.
RECURSIVE loopEnd(_, _)
loopEnd(pending, i) == IF i \in DOMAIN pending THEN loopEnd(pending, i + 1) ELSE i

\* (mutant of releaseLoop) the released entries stay in the pending buffer
releaseLoopKeep(q) ==
    LET m == loopEnd(q.pendingAudios, q.nextIndex)
        blobs == [k \in 1..(m - q.nextIndex) |-> q.pendingAudios[q.nextIndex + k - 1]]
    IN  [q EXCEPT !.queue = q.queue \o blobs,
                  !.released = q.released \o blobs,
                  !.nextIndex = m]

\* (mutant of releaseLoop) an if, not a while: one blob is released at most
releaseLoopOne(q) ==
    IF q.nextIndex \in DOMAIN q.pendingAudios
    THEN [q EXCEPT !.pendingAudios = Remove(q.pendingAudios, q.nextIndex),
                   !.queue = Append(q.queue, q.pendingAudios[q.nextIndex]),
                   !.released = Append(q.released, q.pendingAudios[q.nextIndex]),
                   !.nextIndex = q.nextIndex + 1]
    ELSE q

\* The iterations i = nextIndex .. loopEnd-1 each delete pendingAudios[i],
\* push it on the queue and increment nextIndex.
releaseLoop(q) ==
    LET m == loopEnd(q.pendingAudios, q.nextIndex)
        blobs == [k \in 1..(m - q.nextIndex) |-> q.pendingAudios[q.nextIndex + k - 1]]
    IN  [q EXCEPT !.pendingAudios = [i \in (DOMAIN q.pendingAudios) \ (q.nextIndex..(m - 1))
                                        |-> q.pendingAudios[i]],
                  !.queue = q.queue \o blobs,
                  !.released = q.released \o blobs,
                  !.nextIndex = m]

\* (mutant of processBuffer) the blobs are released but playback is not
\* triggered
processBufferNoPlay(q) == releaseLoop(q)

\* processBuffer(): lines 576-587
processBuffer(q) == processQueue(releaseLoop(q))

\* (mutant of add) every arriving blob is pushed on the ready queue at once,
\* without waiting for its turn
addOnArrival(q, audioBlob, index, sessionId) ==
    IF sessionId # q.currentSessionId
    THEN q
    ELSE processQueue([q EXCEPT !.queue = Append(q.queue, audioBlob),
                                !.released = Append(q.released, audioBlob),
                                !.nextIndex = q.nextIndex + 1])

\* (mutant of add) the session id is not compared
addAnySession(q, audioBlob, index, sessionId) ==
    processBuffer([q EXCEPT !.pendingAudios = Put(q.pendingAudios, index, audioBlob)])

\* add(audioBlob, index, sessionId): lines 563-574
add(q, audioBlob, index, sessionId) ==
    IF sessionId # q.currentSessionId
    THEN q
    ELSE processBuffer([q EXCEPT !.pendingAudios = Put(q.pendingAudios, index, audioBlob)])

\* currentAudio.pause() in stop(): an element whose play() promise is pending
\* has it rejected later; a playing element falls silent and owes nothing.
pause(auds, a) ==
    IF a \notin DOMAIN auds THEN auds
    ELSE IF auds[a] = "starting" THEN [auds EXCEPT ![a] = "aborted"]
    ELSE IF auds[a] = "playing" THEN Remove(auds, a)
    ELSE auds

\* stop(): lines 615-625
stop(q) ==
    [q EXCEPT !.queue = << >>,
              !.audios = IF q.currentAudio # Null THEN pause(q.audios, q.currentAudio)
                         ELSE q.audios,
              !.currentAudio = Null,
              !.isPlaying = FALSE,
              !.pendingAudios = Empty,
              !.nextIndex = 0]

\* (mutant of startSession) the session id is not advanced
startSessionSameId(q) ==
    [stop(q) EXCEPT !.released = << >>, !.started = << >>]

\* startSession(): lines 557-561 (the histories restart with the session)
startSession(q) ==
    [stop(q) EXCEPT !.currentSessionId = q.currentSessionId + 1,
                    !.released = << >>,
                    !.started = << >>]

\* (mutant of playbackOver) the callback stops the queue
playbackOverStop(q) == stop(q)

\* (mutant of playbackOver) the next unit is not started from the callback
playbackOverIdle(q) == [q EXCEPT !.isPlaying = FALSE]

\* (mutant of playbackOver) the unit that was playing is put back at the head
\* of the ready queue
playbackOverRetry(q) ==
    processQueue([q EXCEPT !.isPlaying = FALSE,
                           !.queue = IF q.currentAudio = Null THEN q.queue
                                     ELSE << q.currentAudio >> \o q.queue])

\* the body shared by onended, onerror and the catch of play(): lines 596-612
playbackOver(q) == processQueue([q EXCEPT !.isPlaying = FALSE])

\* ------------------------------------------------------------ the segmenter
IsSpace(c) == c \in Whitespace

RECURSIVE trimStart(_)
trimStart(s) == IF s # << >> /\ IsSpace(Head(s)) THEN trimStart(Tail(s)) ELSE s

RECURSIVE trimEnd(_)
trimEnd(s) ==
    IF s # << >> /\ IsSpace(s[Len(s)]) THEN trimEnd(SubSeq(s, 1, Len(s) - 1)) ELSE s

\* String.prototype.trim()
trim(s) == trimEnd(trimStart(s))

\* (mutant of exec) the last boundary is matched instead of the first
execLast(buf) ==
    LET hits == { i \in 1..Len(buf) : buf[i] \in Punctuations }
    IN  IF hits = {} THEN 0 ELSE CHOOSE i \in hits : \A k \in hits : i >= k

\* punctuations.exec(ttsBuffer): position of the first boundary, 0 when none
\* (the regular expression has no g flag, so every search starts at the head)
exec(buf) ==
    LET hits == { i \in 1..Len(buf) : buf[i] \in Punctuations }
    IN  IF hits = {} THEN 0 ELSE CHOOSE i \in hits : \A k \in hits : i <= k

\* (mutant of nextSentenceIndex) the counter is read but not advanced
sameSentenceIndex(sentenceIndex) == sentenceIndex

\* const currentIndex = sentenceIndex++ : line 712
nextSentenceIndex(sentenceIndex) == sentenceIndex + 1

\* the while loop of the TTS buffering logic: lines 706-735.
\* s = [buf, sentenceIndex, out]: out collects the units handed to fetch.
RECURSIVE segment(_)
segment(s) ==
    LET m == exec(s.buf)
    IN  IF m = 0 THEN s
        ELSE LET sentence == trim(SubSeq(s.buf, 1, m))
                 rest == SubSeq(s.buf, m + 1, Len(s.buf))
             IN  IF sentence # << >>
                 THEN segment([buf |-> rest,
                               sentenceIndex |-> nextSentenceIndex(s.sentenceIndex),
                               out |-> Append(s.out, [index |-> s.sentenceIndex,
                                                      text |-> sentence])])
                 ELSE segment([s EXCEPT !.buf = rest])

\* ttsBuffer += content, then the loop: lines 702-735
feed(buf, sentenceIndex, content) ==
    segment([buf |-> buf \o content, sentenceIndex |-> sentenceIndex, out |-> << >>])

\* (mutant of flush) the remaining buffer is sent without looking at it
flushAlways(buf, sentenceIndex) ==
    [buf |-> buf, sentenceIndex |-> nextSentenceIndex(sentenceIndex),
     out |-> << [index |-> sentenceIndex, text |-> trim(buf)] >>]

\* the flush after the read loop: lines 745-765
flush(buf, sentenceIndex) ==
    IF trim(buf) # << >>
    THEN [buf |-> buf, sentenceIndex |-> nextSentenceIndex(sentenceIndex),
          out |-> << [index |-> sentenceIndex, text |-> trim(buf)] >>]
    ELSE [buf |-> buf, sentenceIndex |-> sentenceIndex, out |-> << >>]

\* (mutant of dispatch) the request is tagged with the id current when it is
\* sent, not with the id the generation obtained when it started
dispatchLive(sid, n, out) ==
    { [sid |-> currentSessionId, idx |-> out[k].index, text |-> out[k].text,
       seq |-> n + k] : k \in 1..Len(out) }

\* fetch('/api/tts', ...) once per unit, closing over (currentIndex, sessionId):
\* lines 714-733.  seq numbers the fetch calls of one sendMessage in call order
\* (n were made before these).
dispatch(sid, n, out) ==
    { [sid |-> sid, idx |-> out[k].index, text |-> out[k].text, seq |-> n + k] :
        k \in 1..Len(out) }

Op(name, sid, idx) == [op |-> name, sid |-> sid, idx |-> idx]

RECURSIVE Sum(_, _)
Sum(f, S) == IF S = {} THEN 0
             ELSE LET x == CHOOSE x \in S : TRUE IN f[x] + Sum(f, S \ {x})

\* fetch('/api/tts') calls made so far, by all sendMessage activations
TotalFetches == Sum([g \in DOMAIN gens |-> gens[g].fetches], DOMAIN gens)

\* ------------------------------------------------------------------- Init
\* The page once script.js has run: new AudioQueue(), lines 544-555; no
\* sendMessage has run, nothing in flight; the recognition variables as
\* declared at lines 412-415.
PageInit ==
    /\ queue = << >>
    /\ isPlaying = FALSE
    /\ currentAudio = Null
    /\ pendingAudios = Empty
    /\ nextIndex = 0
    /\ currentSessionId = 0
    /\ audios = Empty
    /\ jobs = {}
    /\ gens = Empty
    /\ released = << >>
    /\ started = << >>
    /\ dropped = {}
    /\ lastOp = Op("init", 0, 0)
    /\ asrSocket = Undefined
    /\ isRecording = FALSE
    /\ audioContext = Undefined
    /\ chatInput = << >>
    /\ asrStatus = ""
    /\ sockets = Empty
    /\ contexts = Empty
    /\ opening = {}
    /\ mediaRequests = 0
    /\ wire = Empty
    /\ stopRequested = Empty
    /\ finalHeard = << >>

\* The AudioProcessor lives in the audio worklet, apart from the page: the
\* page holds no AudioProcessor, and none of its handlers reads or writes one.
Init ==
    /\ PageInit
    /\ buffer = Null
    /\ bufferIndex = 0
    /\ posted = << >>
    /\ consumed = 0

\* new AudioProcessor(): audio-processor.js lines 2-9 (an Int16Array starts
\* zeroed); nothing was given to process() yet.
FramerInit ==
    /\ PageInit
    /\ buffer = [i \in 0..(bufferSize - 1) |-> 0]
    /\ bufferIndex = 0
    /\ posted = << >>
    /\ consumed = 0

\* ------------------------------------------------- sendMessage: lines 639-778
\* Up to the first await: startSession() and the closure's fresh locals.
\* (text is non-empty: an empty text returns at line 641 before anything.)
sendMessage ==
    /\ currentSessionId < MaxSessions
    /\ LET q == startSession(AQ)
       IN  /\ SetAQ(q)
           /\ gens' = Put(gens, q.currentSessionId,
                          [fullText |-> << >>, buf |-> << >>, sentenceIndex |-> 0,
                           st |-> "streaming", fetches |-> 0, lines |-> 0,
                           lastLine |-> "none"])
           /\ lastOp' = Op("sendMessage", q.currentSessionId, 0)
    /\ dropped' = {}
    /\ UNCHANGED jobs

\* sendMessage called with a text to send (typed, or the description of a tap
\* on the model): the input box is empty before and after.
SendMessage ==
    /\ sendMessage
    /\ UNCHANGED << asrVars, framerVars >>

\* One "data: " line carrying content: lines 694-736.  maxBuf bounds the
\* exploration: the buffer left over stays short.
\* gens[g]: fullText, buf (ttsBuffer), sentenceIndex are the closure's locals;
\* st is where the activation stands; fetches, lines and lastLine are history
\* (fetch calls made, content lines read, kind of the last line).
Content(g, content, maxBuf) ==
    /\ gens[g].st = "streaming"
    /\ content # << >>
    /\ gens[g].lines < MaxFragments
    /\ LET r == feed(gens[g].buf, gens[g].sentenceIndex, content)
       IN  /\ Len(r.buf) <= maxBuf
           /\ r.sentenceIndex <= MaxUnits
           /\ TotalFetches + Len(r.out) <= MaxJobs
           /\ gens' = [gens EXCEPT ![g].fullText = gens[g].fullText \o content,
                                   ![g].buf = r.buf,
                                   ![g].sentenceIndex = r.sentenceIndex,
                                   ![g].fetches = gens[g].fetches + Len(r.out),
                                   ![g].lines = gens[g].lines + 1,
                                   ![g].lastLine = "content"]
           /\ jobs' = jobs \cup dispatch(g, gens[g].fetches, r.out)
    /\ UNCHANGED << queue, isPlaying, currentAudio, pendingAudios, nextIndex,
                    currentSessionId, audios, released, started, dropped, lastOp >>
    /\ UNCHANGED << asrVars, framerVars >>

\* (mutant of lineCatch) the buffered text is dropped with the line
lineCatchReset(gen, kind) == [gen EXCEPT !.buf = << >>, !.lastLine = kind]

\* catch (e) { console.error("Stream parse error:", e) }: lines 737-739.  The
\* closure's locals are as the try block left them; lastLine is history.
lineCatch(gen, kind) == [gen EXCEPT !.lastLine = kind]

\* A line whose handling throws before it changes any local: a {error} line
\* (the throw of line 692), an undecodable line (JSON.parse, line 690); both
\* are caught by the per-line catch.
Ignored(g, kind) ==
    /\ gens[g].st = "streaming"
    /\ gens[g].lastLine # kind
    /\ gens' = [gens EXCEPT ![g] = lineCatch(gens[g], kind)]
    /\ UNCHANGED << queue, isPlaying, currentAudio, pendingAudios, nextIndex,
                    currentSessionId, audios, jobs, released, started, dropped,
                    lastOp >>
    /\ UNCHANGED << asrVars, framerVars >>

\* reader.read() reports done: the flush of lines 744-765.
StreamEnd(g) ==
    /\ gens[g].st = "streaming"
    /\ LET r == flush(gens[g].buf, gens[g].sentenceIndex)
       IN  /\ r.sentenceIndex <= MaxUnits
           /\ TotalFetches + Len(r.out) <= MaxJobs
           /\ gens' = [gens EXCEPT ![g].st = "done",
                                   ![g].sentenceIndex = r.sentenceIndex,
                                   ![g].fetches = gens[g].fetches + Len(r.out)]
           /\ jobs' = jobs \cup dispatch(g, gens[g].fetches, r.out)
    /\ UNCHANGED << queue, isPlaying, currentAudio, pendingAudios, nextIndex,
                    currentSessionId, audios, released, started, dropped, lastOp >>
    /\ UNCHANGED << asrVars, framerVars >>

\* The chat request fails, answers not-ok, or a read rejects: the outer catch
\* of line 767; the flush is skipped.
StreamFail(g) ==
    /\ gens[g].st = "streaming"
    /\ gens' = [gens EXCEPT ![g].st = "failed"]
    /\ UNCHANGED << queue, isPlaying, currentAudio, pendingAudios, nextIndex,
                    currentSessionId, audios, jobs, released, started, dropped,
                    lastOp >>
    /\ UNCHANGED << asrVars, framerVars >>

\* ------------------------------------------- synthesis completions: 719-733
\* The job answers with a non-empty blob: audioQueue.add(blob, index, sessionId)
TtsOk(j) ==
    /\ j \in jobs
    /\ jobs' = jobs \ {j}
    /\ SetAQ(add(AQ, Blob(j.sid, j.idx), j.idx, j.sid))
    /\ lastOp' = Op("add", j.sid, j.idx)
    /\ UNCHANGED << gens, dropped >>
    /\ UNCHANGED << asrVars, framerVars >>

\* The job fails (network error, not-ok status) or answers with an empty blob:
\* logged, add() is not called.
TtsDropped(j, why) ==
    /\ j \in jobs
    /\ jobs' = jobs \ {j}
    /\ dropped' = IF j.sid = currentSessionId THEN dropped \cup {j.idx} ELSE dropped
    /\ UNCHANGED << queue, isPlaying, currentAudio, pendingAudios, nextIndex,
                    currentSessionId, audios, gens, released, started, lastOp >>
    /\ UNCHANGED << asrVars, framerVars >>

\* ------------------------------------------------ playback events: 596-612
\* play() is fulfilled: playback begins; the code attaches no handler.
PlayFulfilled(a) ==
    /\ a \in DOMAIN audios /\ audios[a] = "starting"
    /\ audios' = [audios EXCEPT ![a] = "playing"]
    /\ UNCHANGED << queue, isPlaying, currentAudio, pendingAudios, nextIndex,
                    currentSessionId, jobs, gens, released, started, dropped,
                    lastOp >>
    /\ UNCHANGED << asrVars, framerVars >>

\* The unit plays to its end: onended.
Ended(a) ==
    /\ a \in DOMAIN audios /\ audios[a] = "playing"
    /\ SetAQ(playbackOver([AQ EXCEPT !.audios = Remove(audios, a)]))
    /\ lastOp' = Op("ended", a[1], 0)
    /\ UNCHANGED << jobs, gens, dropped >>
    /\ UNCHANGED << asrVars, framerVars >>

\* The media fails while playing (decode error): onerror.
DecodeError(a) ==
    /\ a \in DOMAIN audios /\ audios[a] = "playing"
    /\ SetAQ(playbackOver([AQ EXCEPT !.audios = Remove(audios, a)]))
    /\ lastOp' = Op("error", a[1], 0)
    /\ UNCHANGED << jobs, gens, dropped >>
    /\ UNCHANGED << asrVars, framerVars >>

\* The media cannot be loaded: the element fires error (onerror) and rejects
\* the pending play() promise (the catch), in that order, within one task.
LoadFailed(a) ==
    /\ a \in DOMAIN audios /\ audios[a] = "starting"
    /\ SetAQ(playbackOver(playbackOver([AQ EXCEPT !.audios = Remove(audios, a)])))
    /\ lastOp' = Op("loadFailed", a[1], 0)
    /\ UNCHANGED << jobs, gens, dropped >>
    /\ UNCHANGED << asrVars, framerVars >>

\* play() is refused (autoplay policy): the catch alone.
PlayBlocked(a) ==
    /\ a \in DOMAIN audios /\ audios[a] = "starting"
    /\ SetAQ(playbackOver([AQ EXCEPT !.audios = Remove(audios, a)]))
    /\ lastOp' = Op("blocked", a[1], 0)
    /\ UNCHANGED << jobs, gens, dropped >>
    /\ UNCHANGED << asrVars, framerVars >>

\* The play() promise of an element paused by stop() is rejected: the catch,
\* run for a unit that was aborted.
AbortRejected(a) ==
    /\ a \in DOMAIN audios /\ audios[a] = "aborted"
    /\ SetAQ(playbackOver([AQ EXCEPT !.audios = Remove(audios, a)]))
    /\ lastOp' = Op("abortRejected", a[1], 0)
    /\ UNCHANGED << jobs, gens, dropped >>
    /\ UNCHANGED << asrVars, framerVars >>

\* ------------------------------------------- speech recognition: 409-539
\* Texts a recognition message may carry in data.text.
AsrTexts == { << >>, << " " >>, << "h", "i" >> }

\* The recognition variables (with the sockets and contexts they refer to and
\* the history of what was sent) as one record, so that the functions compose.
ASR ==
    [ asrSocket |-> asrSocket, isRecording |-> isRecording,
      audioContext |-> audioContext, sockets |-> sockets, contexts |-> contexts,
      wire |-> wire, asrStatus |-> asrStatus ]

SetASR(r) ==
    \E a \in {r} :
    /\ asrSocket' = a.asrSocket
    /\ isRecording' = a.isRecording
    /\ audioContext' = a.audioContext
    /\ sockets' = a.sockets
    /\ contexts' = a.contexts
    /\ wire' = a.wire
    /\ asrStatus' = a.asrStatus

\* bound of the exploration: no socket carries more than MaxWire messages
WireBounded(r) == \A s \in DOMAIN r.wire : Len(r.wire[s]) <= MaxWire

\* if (audioContext) { audioContext.close(); audioContext = null; }
\* lines 497-500 and 508-511
closeContext(r) ==
    IF r.audioContext # Undefined
    THEN [r EXCEPT !.contexts[r.audioContext].closed = TRUE,
                   !.audioContext = Undefined]
    ELSE r

\* asrSocket.send(...): appended to what the socket carried
send(r, data) == [r EXCEPT !.wire[r.asrSocket] = Append(@, data)]

\* stopRecording(): lines 486-501
stopRecording(r) ==
    LET open == r.asrSocket # Undefined /\ r.sockets[r.asrSocket] = "OPEN"
        r1 == IF open THEN send(r, "stop") ELSE r
    IN  closeContext([r1 EXCEPT !.isRecording = FALSE,
                                !.asrStatus = "Processing..."])

\* stopRecordingCleanup(): lines 503-514
stopRecordingCleanup(r) ==
    closeContext([r EXCEPT !.isRecording = FALSE, !.asrStatus = ""])

\* asrSocket.close(): line 463 (the socket the variable refers to)
close(r) ==
    IF r.sockets[r.asrSocket] \in {"CONNECTING", "OPEN"}
    THEN [r EXCEPT !.sockets[r.asrSocket] = "CLOSING"]
    ELSE r

\* onopen after the await of addModule: lines 436-449.  audioContext is read
\* again from the variable; a null there, or a context on which the processor
\* is not registered, throws into the catch, which calls stopRecording().
resumeOnopen(r) ==
    IF r.audioContext = Undefined \/ ~r.contexts[r.audioContext].loaded
    THEN stopRecording(r)
    ELSE [r EXCEPT !.contexts[r.audioContext].node = TRUE]

\* (mutant of showText) the text is appended to what the input box holds
appendText(value, text) == value \o text

\* if (data.text) chatInput.value = data.text: lines 454-456
showText(value, text) == IF text # << >> THEN text ELSE value

\* mousedown / touchstart on the mic button: startRecording() up to the await
\* of getUserMedia (lines 521-524, 531-534, 417-419).  Nothing is tested first.
PressMic ==
    /\ Cardinality(DOMAIN sockets) + mediaRequests < MaxSockets
    /\ mediaRequests' = mediaRequests + 1
    /\ UNCHANGED << asrSocket, isRecording, audioContext, chatInput, asrStatus,
                    sockets, contexts, opening, wire, stopRequested >>
    /\ UNCHANGED << finalHeard, aqVars, framerVars >>

\* getUserMedia resolves: the WebSocket is created and assigned to asrSocket,
\* its handlers are attached (lines 422-478).
MediaGranted ==
    /\ mediaRequests > 0
    /\ mediaRequests' = mediaRequests - 1
    /\ LET s == Cardinality(DOMAIN sockets) + 1
       IN  /\ sockets' = Put(sockets, s, "CONNECTING")
           /\ asrSocket' = s
           /\ wire' = Put(wire, s, << >>)
           /\ stopRequested' = Put(stopRequested, s, "no")
    /\ UNCHANGED << isRecording, audioContext, chatInput, asrStatus, contexts,
                    opening >>
    /\ UNCHANGED << finalHeard, aqVars, framerVars >>

\* getUserMedia rejects: the catch of lines 480-483.
MediaDenied ==
    /\ mediaRequests > 0
    /\ mediaRequests' = mediaRequests - 1
    /\ UNCHANGED << asrSocket, isRecording, audioContext, chatInput, asrStatus,
                    sockets, contexts, opening, wire, stopRequested >>
    /\ UNCHANGED << finalHeard, aqVars, framerVars >>

\* mouseup / touchend on the mic button: stopRecording() (lines 526-529,
\* 536-539).  stopRequested records in which state the request found each
\* session.
ReleaseMic ==
    /\ LET r == stopRecording(ASR)
       IN  WireBounded(r) /\ SetASR(r)
    /\ stopRequested' =
          [s \in DOMAIN sockets |->
              IF stopRequested[s] # "no" THEN stopRequested[s]
              ELSE IF sockets[s] = "CONNECTING" THEN "connecting"
              ELSE IF sockets[s] = "OPEN" THEN "listening"
              ELSE "no"]
    /\ UNCHANGED << chatInput, opening, mediaRequests >>
    /\ UNCHANGED << finalHeard, aqVars, framerVars >>

\* asrSocket.onopen up to its await: lines 425-434.
SocketOpen(s) ==
    /\ s \in DOMAIN sockets /\ sockets[s] = "CONNECTING"
    /\ sockets' = [sockets EXCEPT ![s] = "OPEN"]
    /\ isRecording' = TRUE
    /\ audioContext' = s
    /\ contexts' = Put(contexts, s, [closed |-> FALSE, loaded |-> FALSE, node |-> FALSE])
    /\ opening' = opening \cup {s}
    /\ asrStatus' = "Listening..."
    /\ UNCHANGED << asrSocket, chatInput, mediaRequests, wire, stopRequested >>
    /\ UNCHANGED << finalHeard, aqVars, framerVars >>

\* addModule of the context made by socket s's onopen resolves; onopen resumes.
WorkletLoaded(s) ==
    /\ s \in opening
    /\ opening' = opening \ {s}
    /\ LET r == resumeOnopen([ASR EXCEPT !.contexts[s].loaded = TRUE])
       IN  WireBounded(r) /\ SetASR(r)
    /\ UNCHANGED << chatInput, mediaRequests, stopRequested >>
    /\ UNCHANGED << finalHeard, aqVars, framerVars >>

\* addModule rejects: the catch of lines 446-449.
WorkletFailed(s) ==
    /\ s \in opening
    /\ opening' = opening \ {s}
    /\ LET r == stopRecording(ASR)
       IN  WireBounded(r) /\ SetASR(r)
    /\ UNCHANGED << chatInput, mediaRequests, stopRequested >>
    /\ UNCHANGED << finalHeard, aqVars, framerVars >>

\* processor.port.onmessage: lines 439-442.  The processor of a context that
\* was not closed posts a frame; the handler reads isRecording and asrSocket as
\* they are now.
Frame(c) ==
    /\ c \in DOMAIN contexts /\ ~contexts[c].closed /\ contexts[c].node
    /\ IF isRecording /\ sockets[asrSocket] = "OPEN"
       THEN /\ Len(wire[asrSocket]) < MaxWire
            /\ wire' = send(ASR, "frame").wire
       ELSE wire' = wire
    /\ UNCHANGED << asrSocket, isRecording, audioContext, chatInput, asrStatus,
                    sockets, contexts, opening, mediaRequests, stopRequested >>
    /\ UNCHANGED << finalHeard, aqVars, framerVars >>

\* asrSocket.onmessage: lines 452-473.  kind: "update" {text, is_final: false},
\* "final" {text, is_final: true}, "error" {error}, "malformed" (JSON.parse
\* throws).  A final message whose text leaves the input box non-blank calls
\* sendMessage(), which empties the box.
Message(s, text, kind) ==
    /\ s \in DOMAIN sockets /\ sockets[s] = "OPEN"
    /\ kind \in {"error", "malformed"} => text = << >>
    /\ LET value == IF kind \in {"update", "final"}
                    THEN showText(chatInput, text) ELSE chatInput
       IN  IF kind = "final"
           THEN /\ SetASR(close(stopRecordingCleanup(ASR)))
                /\ IF trim(value) # << >>
                   THEN sendMessage /\ chatInput' = << >>
                   ELSE chatInput' = value /\ UNCHANGED aqVars
           ELSE /\ chatInput' = value
                /\ asrStatus' = IF kind = "error" THEN "Error" ELSE asrStatus
                /\ UNCHANGED << asrSocket, isRecording, audioContext, sockets,
                                contexts, wire >>
                /\ UNCHANGED aqVars
    /\ finalHeard' = IF kind = "final" THEN text ELSE finalHeard
    /\ UNCHANGED << opening, mediaRequests, stopRequested >>
    /\ UNCHANGED framerVars

\* The channel closes (refused, closed by the server, or after close()):
\* asrSocket.onclose, lines 475-478.
SocketClose(s) ==
    /\ s \in DOMAIN sockets /\ sockets[s] # "CLOSED"
    /\ SetASR(stopRecordingCleanup([ASR EXCEPT !.sockets[s] = "CLOSED"]))
    /\ UNCHANGED << chatInput, opening, mediaRequests, stopRequested >>
    /\ UNCHANGED << finalHeard, aqVars, framerVars >>

\* ------------------------------------ AudioProcessor: audio-processor.js
\* A sample is a rational number, written << numerator, denominator >>.
Minus(x) == << 0 - x[1], x[2] >>
Less(x, y) == x[1] * y[2] < y[1] * x[2]
One == << 1, 1 >>

\* Math.max(a, b), Math.min(a, b)
max(a, b) == IF Less(a, b) THEN b ELSE a
min(a, b) == IF Less(b, a) THEN b ELSE a

\* the integer part of x times k (k a positive integer), towards zero
TruncTimes(x, k) ==
    IF x[1] < 0 THEN 0 - (((0 - x[1]) * k) \div x[2]) ELSE (x[1] * k) \div x[2]

\* storing a number in an Int16Array element: its integer part modulo 2^16,
\* read as a signed 16-bit value
ToInt16(n) == ((n + 32768) % 65536) - 32768

\* (mutant of convert) the sample is scaled without being clamped
convertUnclamped(x) ==
    ToInt16(IF x[1] < 0 THEN TruncTimes(x, 32768) ELSE TruncTimes(x, 32767))

\* const s = Math.max(-1, Math.min(1, inputData[i]));
\* this.buffer[...] = s < 0 ? s * 0x8000 : s * 0x7FFF;   lines 17-18
convert(x) ==
    LET s == max(Minus(One), min(One, x))
    IN  ToInt16(IF s[1] < 0 THEN TruncTimes(s, 32768) ELSE TruncTimes(s, 32767))

\* The AudioProcessor object (with what it posted) as one record.
AP == [ buffer |-> buffer, bufferIndex |-> bufferIndex, posted |-> posted ]

SetAP(r) ==
    \E a \in {r} :
    /\ buffer' = a.buffer
    /\ bufferIndex' = a.bufferIndex
    /\ posted' = a.posted

\* (mutant of slice) the copy stops one element early
sliceShort(buf, n) == [k \in 1..(n - 1) |-> buf[k - 1]]

\* this.buffer.slice(0, n): a copy of the first n elements
slice(buf, n) == [k \in 1..n |-> buf[k - 1]]

\* (mutant of processorFlush) the whole buffer is posted, not the valid part
flushWhole(r) ==
    IF r.bufferIndex > 0
    THEN [r EXCEPT !.posted = Append(@, slice(r.buffer, bufferSize)),
                   !.bufferIndex = 0]
    ELSE r

\* (mutant of processorFlush) the offset restarts at 1, not at 0
flushOffsetOne(r) ==
    IF r.bufferIndex > 0
    THEN [r EXCEPT !.posted = Append(@, slice(r.buffer, r.bufferIndex)),
                   !.bufferIndex = 1]
    ELSE r

\* flush(): lines 28-34
processorFlush(r) ==
    IF r.bufferIndex > 0
    THEN [r EXCEPT !.posted = Append(@, slice(r.buffer, r.bufferIndex)),
                   !.bufferIndex = 0]
    ELSE r

\* The for loop of lines 16-23 from sample i (1-based) on. The iterations up
\* to the next flush are taken at once: they store n converted samples at
\* bufferIndex, bufferIndex + 1, ..., and only the last of them can find
\* bufferIndex >= bufferSize and flush.
RECURSIVE processLoop(_, _, _)
processLoop(r, inputData, i) ==
    IF i > Len(inputData) THEN r
    ELSE LET rest == Len(inputData) - i + 1
             room == bufferSize - r.bufferIndex
             n == IF rest < room THEN rest ELSE room
             r1 == [r EXCEPT
                      !.buffer = [k \in DOMAIN r.buffer |->
                          IF k >= r.bufferIndex /\ k < r.bufferIndex + n
                          THEN convert(inputData[i + (k - r.bufferIndex)])
                          ELSE r.buffer[k]],
                      !.bufferIndex = r.bufferIndex + n]
             r2 == IF r1.bufferIndex >= bufferSize THEN processorFlush(r1) ELSE r1
         IN  processLoop(r2, inputData, i + n)

\* The capture, sample after sample (it repeats these seven values), and the
\* lengths of the blocks process() is given: the 128 of a render quantum, and
\* lengths that cut the capture anywhere with respect to the frames.
SampleCycle ==
    << << -3, 2 >>, << -1, 1 >>, << -1, 2 >>, << 0, 1 >>,
       << 1, 2 >>, << 1, 1 >>, << 3, 2 >> >>

SampleAt(n) == SampleCycle[((n - 1) % Len(SampleCycle)) + 1]

BlockLengths == {0, 1, 128, 513}

\* process(inputs) with one channel of len samples: lines 11-26
Process(len) ==
    /\ consumed + len <= MaxSamples
    /\ LET inputData == [k \in 1..len |-> SampleAt(consumed + k)]
       IN  SetAP(processLoop(AP, inputData, 1))
    /\ consumed' = consumed + len
    /\ UNCHANGED << aqVars, asrVars >>

\* process(inputs) while no channel is connected (input.length is 0): line 13
ProcessNoInput ==
    /\ UNCHANGED framerVars
    /\ UNCHANGED << aqVars, asrVars >>

\* ------------------------------------------------------------------- Next
Next ==
    \/ SendMessage
    \/ \E g \in DOMAIN gens, c \in Fragments : Content(g, c, 0)
    \/ \E g \in DOMAIN gens : StreamEnd(g)
    \/ \E g \in DOMAIN gens : StreamFail(g)
    \/ \E j \in jobs : TtsOk(j)
    \/ \E j \in jobs, why \in {"ttsError", "ttsEmpty"} : TtsDropped(j, why)
    \/ \E a \in DOMAIN audios : PlayFulfilled(a)
    \/ \E a \in DOMAIN audios : Ended(a)
    \/ \E a \in DOMAIN audios : DecodeError(a)
    \/ \E a \in DOMAIN audios : LoadFailed(a)
    \/ \E a \in DOMAIN audios : PlayBlocked(a)
    \/ \E a \in DOMAIN audios : AbortRejected(a)

Spec == Init /\ [][Next]_vars

\* Every synthesis request is answered (with audio, with nothing or with an
\* error) and every Audio element that was asked to play reports how that
\* went: the two services the queue waits on.
Settle ==
    \E j \in jobs :
        \/ \E why \in {"ttsError", "ttsEmpty"} : TtsDropped(j, why)
        \/ TtsOk(j)

Playback ==
    \E a \in DOMAIN audios :
        \/ PlayFulfilled(a) \/ Ended(a) \/ DecodeError(a)
        \/ LoadFailed(a) \/ PlayBlocked(a) \/ AbortRejected(a)

LiveSpec == Spec /\ WF_vars(Settle) /\ WF_vars(Playback)

\* The text side alone: the first sendMessage activation reading its stream
\* (ttsBuffer and sentenceIndex are locals of the activation, so activations
\* do not touch each other's segmentation); the synthesis requests stay in
\* flight.
SegNext ==
    \/ (gens = Empty /\ SendMessage)
    \/ \E g \in DOMAIN gens, c \in SegFragments : Content(g, c, MaxSegBuf)
    \/ \E g \in DOMAIN gens, k \in {"error", "malformed"} : Ignored(g, k)
    \/ \E g \in DOMAIN gens : StreamEnd(g)
    \/ \E g \in DOMAIN gens : StreamFail(g)

SegSpec == Init /\ [][SegNext]_vars

\* The recognition side alone: the mic button, getUserMedia, the recognition
\* sockets and the worklet; a sendMessage started by a final transcript leaves
\* its chat request in flight.
AsrNext ==
    \/ PressMic
    \/ MediaGranted
    \/ MediaDenied
    \/ ReleaseMic
    \/ \E s \in DOMAIN sockets : SocketOpen(s)
    \/ \E s \in opening : WorkletLoaded(s)
    \/ \E s \in opening : WorkletFailed(s)
    \/ \E c \in DOMAIN contexts : Frame(c)
    \/ \E s \in DOMAIN sockets, text \in AsrTexts,
           kind \in {"update", "final", "error", "malformed"} : Message(s, text, kind)
    \/ \E s \in DOMAIN sockets : SocketClose(s)

AsrSpec == Init /\ [][AsrNext]_vars

\* The two inbound message paths in a row: one recognition session (a single
\* press of the mic button) whose final transcript starts the chat request,
\* and the text stream of that request.
InboundNext ==
    \/ (sockets = Empty /\ mediaRequests = 0 /\ PressMic)
    \/ MediaGranted
    \/ \E s \in DOMAIN sockets : SocketOpen(s)
    \/ \E s \in opening : WorkletLoaded(s)
    \/ \E s \in DOMAIN sockets, text \in AsrTexts,
           kind \in {"update", "final", "error", "malformed"} : Message(s, text, kind)
    \/ \E s \in DOMAIN sockets : SocketClose(s)
    \/ \E g \in DOMAIN gens, c \in SegFragments : Content(g, c, MaxSegBuf)
    \/ \E g \in DOMAIN gens, k \in {"error", "malformed"} : Ignored(g, k)
    \/ \E g \in DOMAIN gens : StreamEnd(g)

InboundSpec == Init /\ [][InboundNext]_vars

\* The AudioProcessor alone, fed block after block.
FramerNext ==
    \/ \E len \in BlockLengths : Process(len)
    \/ ProcessNoInput

FramerSpec == FramerInit /\ [][FramerNext]_vars

\* ======================================================================
\* Claims
\* ======================================================================

Audible == { a \in DOMAIN audios : audios[a] = "playing" }

\* ---------------------------------------------------------------- C1
\* C1: within one session, whatever the arrival order of the add() calls,
\* the k-th blob pushed on the ready queue since the session began is the
\* blob of index k-1 of that session (in order, no gaps).
C1_InOrderRelease ==
    \A k \in 1..Len(released) : released[k] = Blob(currentSessionId, k - 1)

\* The add of index 1 arrives last of three and releases what waited behind it.
C1_Witness ==
    /\ lastOp = Op("add", currentSessionId, 1)
    /\ Len(released) = 3
    /\ pendingAudios = Empty

\* ---------------------------------------------------------------- C2
\* C2: an add() whose session id differs from the current one changes nothing
\* of the queue: ready queue, pending buffer, nextIndex, playing state,
\* current session id (and the elements and histories) stay as they were.
C2_StaleAddInert ==
    [][\A j \in jobs :
          ( /\ jobs' = jobs \ {j}
            /\ lastOp' = Op("add", j.sid, j.idx)
            /\ j.sid # currentSessionId )
          => UNCHANGED << queue, pendingAudios, nextIndex, isPlaying,
                          currentSessionId, currentAudio, audios, released,
                          started >>]_vars

\* A late add of an old session has just run while the new session plays.
C2_Witness ==
    /\ lastOp.op = "add"
    /\ lastOp.sid # currentSessionId
    /\ isPlaying

\* ---------------------------------------------------------------- C3
\* C3: a dropped unit never blocks the units after it: a blob accepted by
\* add() waits in the pending buffer only while some lower index that has
\* not been dropped is still to come.
C3_DroppedNeverBlocks ==
    \A j \in DOMAIN pendingAudios :
        \E k \in nextIndex..(j - 1) : k \notin dropped

\* ---------------------------------------------------------------- C4
\* C4: at most one audio unit is playing at any time.
C4_SingleFlight == Cardinality(Audible) <= 1

\* ---------------------------------------------------------------- C5
\* C5: right after startSession() returns nothing plays, the ready queue and
\* the pending buffer are empty and nextIndex is 0.
C5_StartSessionClears ==
    [][SendMessage =>
          /\ queue' = << >>
          /\ pendingAudios' = Empty
          /\ nextIndex' = 0
          /\ isPlaying' = FALSE
          /\ { a \in DOMAIN audios' : audios'[a] = "playing" } = {}]_vars

\* ---------------------------------------------------------------- C6
\* C6: every startSession() returns an id strictly greater than every id
\* returned before; the current session id never decreases and only
\* startSession changes it.
C6_SessionIdMonotonic ==
    [][/\ currentSessionId' >= currentSessionId
       /\ SendMessage => /\ currentSessionId' > currentSessionId
                         /\ \A g \in DOMAIN gens : currentSessionId' > g
       /\ currentSessionId' # currentSessionId => SendMessage]_vars

\* startSession has run twice.
C6_Witness ==
    /\ currentSessionId = 2
    /\ lastOp = Op("sendMessage", 2, 0)
    /\ DOMAIN gens = {1, 2}

\* ---------------------------------------------------------------- C7
\* C7: once startSession() has returned a new id, no audio of an earlier
\* session enters the pending buffer or the ready queue or begins playback.
C7_StaleAudioInert ==
    /\ \A k \in 1..Len(queue) : queue[k][1] = currentSessionId
    /\ \A i \in DOMAIN pendingAudios : pendingAudios[i][1] = currentSessionId
    /\ \A k \in 1..Len(started) : started[k][1] = currentSessionId
    /\ \A k \in 1..Len(released) : released[k][1] = currentSessionId

\* An old job resolves late, while the new session has audio buffered, queued
\* and playing.
C7_Witness ==
    /\ lastOp.op = "add"
    /\ lastOp.sid < currentSessionId
    /\ started # << >>
    /\ pendingAudios # Empty

\* ---------------------------------------------------------------- C8
\* C8: the units of a session begin playback in index order whatever the
\* order in which their jobs complete; and once the generation of the current
\* session has read its stream to the end, then, unless a job is dropped or a
\* new session starts, every unit it emitted has eventually begun playback.
InIndexOrder == \A k \in 1..Len(started) : started[k] = Blob(currentSessionId, k - 1)

AllStarted(g) ==
    started = [k \in 1..gens[g].fetches |-> Blob(g, k - 1)]

C8_AllPlayedInOrder ==
    /\ []InIndexOrder
    /\ \A g \in 1..MaxSessions :
          (g = currentSessionId /\ gens[g].st = "done")
              ~> (currentSessionId # g \/ dropped # {} \/ AllStarted(g))

\* Three units, the jobs answered out of order (index 1 last), all played.
C8_Witness ==
    /\ currentSessionId \in DOMAIN gens
    /\ gens[currentSessionId].st = "done"
    /\ gens[currentSessionId].fetches = 3
    /\ dropped = {}
    /\ AllStarted(currentSessionId)
    /\ audios = Empty
    /\ jobs = {}

\* ---------------------------------------------------------------- C9
\* C9: the indices given to the units one generation emits are 0, 1, 2, ...
\* in emission order: the n-th fetch carries index n-1, whatever segments
\* were dropped as empty in between, and no index is given twice.
JobsOf(g) == { j \in jobs : j.sid = g }

C9_IndicesContiguous ==
    \A g \in DOMAIN gens :
        /\ \A j \in JobsOf(g) : j.idx = j.seq - 1
        /\ { j.seq : j \in JobsOf(g) } = 1..gens[g].fetches
        /\ \A j1, j2 \in JobsOf(g) : j1.idx = j2.idx => j1 = j2
        /\ gens[g].sentenceIndex = gens[g].fetches

\* ".", then a line break alone (empty after trim, dropped), then ".": the
\* second unit has index 1.
C9_Witness ==
    /\ 1 \in DOMAIN gens
    /\ gens[1].fullText = << ".", NL, "." >>
    /\ { j.idx : j \in JobsOf(1) } = {0, 1}

\* ---------------------------------------------------------------- C10
\* C10: while the stream is read, the units emitted so far are the trimmed,
\* non-empty pieces into which the boundary characters cut the text received
\* so far, each piece ending with its boundary, in text order; the buffer
\* holds what follows the last boundary.
Boundaries(t) == { i \in 1..Len(t) : t[i] \in Punctuations }

\* the piece that ends at boundary p: from after the previous boundary
PieceStart(t, p) ==
    LET before == { b \in Boundaries(t) : b < p }
    IN  IF before = {} THEN 1
        ELSE 1 + CHOOSE b \in before : \A c \in before : c <= b

\* the piece without the whitespace around it
Stripped(t, lo, hi) ==
    LET ink == { i \in lo..hi : t[i] \notin Whitespace }
    IN  IF ink = {} THEN << >>
        ELSE SubSeq(t, CHOOSE i \in ink : \A k \in ink : i <= k,
                       CHOOSE i \in ink : \A k \in ink : i >= k)

Piece(t, p) == Stripped(t, PieceStart(t, p), p)

Spoken(t) == { p \in Boundaries(t) : Piece(t, p) # << >> }

\* the units expected of text t: seq and index count the pieces before
ExpectedJobs(g, t) ==
    { [sid |-> g,
       idx |-> Cardinality({ b \in Spoken(t) : b < p }),
       text |-> Piece(t, p),
       seq |-> Cardinality({ b \in Spoken(t) : b < p }) + 1] : p \in Spoken(t) }

ExpectedRest(t) ==
    IF Boundaries(t) = {} THEN t
    ELSE SubSeq(t, 1 + CHOOSE b \in Boundaries(t) : \A c \in Boundaries(t) : c <= b,
                Len(t))

C10_SegmentsAtBoundaries ==
    \A g \in DOMAIN gens :
        gens[g].st = "streaming" =>
            /\ JobsOf(g) = ExpectedJobs(g, gens[g].fullText)
            /\ gens[g].buf = ExpectedRest(gens[g].fullText)

\* "Hello, ", "world. How", " are you?" gives (0, "Hello,"), (1, "world."),
\* (2, "How are you?").
C10_Witness ==
    /\ 1 \in DOMAIN gens
    /\ gens[1].st = "streaming"
    /\ gens[1].fullText = Hello \o World \o AreYou
    /\ gens[1].lines = 3
    /\ jobs = { [sid |-> 1, idx |-> 0, seq |-> 1,
                 text |-> << "H", "e", "l", "l", "o", "," >>],
                [sid |-> 1, idx |-> 1, seq |-> 2,
                 text |-> << "w", "o", "r", "l", "d", "." >>],
                [sid |-> 1, idx |-> 2, seq |-> 3,
                 text |-> << "H", "o", "w", " ", "a", "r", "e", " ", "y", "o", "u", "?" >>] }
    /\ gens[1].buf = << >>

\* ---------------------------------------------------------------- C11
\* C11: when the stream ends, a remaining buffer that is non-empty once the
\* whitespace around it is removed is sent as exactly one more unit, with the
\* index that follows the units emitted before; a remaining buffer that is
\* empty or all whitespace sends nothing.
C11_FlushOneFinalUnit ==
    [][\A g \in DOMAIN gens :
          (gens[g].st = "streaming" /\ gens'[g].st = "done") =>
              LET rest == Stripped(gens[g].buf, 1, Len(gens[g].buf))
              IN  IF rest # << >>
                  THEN jobs' \ jobs = { [sid |-> g, idx |-> gens[g].fetches,
                                         text |-> rest,
                                         seq |-> gens[g].fetches + 1] }
                  ELSE jobs' = jobs]_vars

\* "a. b!" then "a": the stream ends with "a" in the buffer, sent as unit 2.
C11_Witness ==
    /\ 1 \in DOMAIN gens
    /\ gens[1].st = "done"
    /\ gens[1].fullText = << "a", ".", " ", "b", "!", "a" >>
    /\ gens[1].buf = << "a" >>
    /\ [sid |-> 1, idx |-> 2, text |-> << "a" >>, seq |-> 3] \in jobs
    /\ Cardinality(jobs) = 3

\* ---------------------------------------------------------------- C12
\* C12: every step of a generation sends exactly one synthesis request per
\* unit it emits in that step, tagged with the unit's index and with the
\* session id the generation obtained when it started (also when a later
\* session has begun meanwhile); so the requests sent equal the units
\* emitted, 3 and 3 for the stream "A. B! C?".
ABC == << "A", ".", " ", "B", "!", " ", "C", "?" >>

C12_OneJobPerUnit ==
    /\ [][\A g \in DOMAIN gens :
             gens'[g] # gens[g] =>
                 LET new == jobs' \ jobs
                     lo == gens[g].sentenceIndex
                     hi == gens'[g].sentenceIndex
                 IN  /\ Cardinality(new) = hi - lo
                     /\ { j.idx : j \in new } = lo..(hi - 1)
                     /\ \A j \in new : j.sid = g
                     /\ jobs \subseteq jobs'
                     /\ gens'[g].fetches = gens[g].fetches + (hi - lo)]_vars
    /\ LET r == flush(feed(<< >>, 0, ABC).buf, feed(<< >>, 0, ABC).sentenceIndex)
           units == feed(<< >>, 0, ABC).out \o r.out
       IN  /\ units = << [index |-> 0, text |-> << "A", "." >>],
                         [index |-> 1, text |-> << "B", "!" >>],
                         [index |-> 2, text |-> << "C", "?" >>] >>
           /\ Cardinality(dispatch(1, 0, units)) = 3

\* The generation of session 1 has emitted three units; its three requests are
\* in flight, indices 0, 1, 2, each carrying session id 1 while session 2 is
\* the current one.
C12_Witness ==
    /\ currentSessionId = 2
    /\ gens[1].sentenceIndex = 3
    /\ gens[1].fetches = 3
    /\ { j \in jobs : j.sid = 1 } =
           { [sid |-> 1, idx |-> k, text |-> << "a", "." >>, seq |-> k + 1] : k \in 0..2 }

\* ---------------------------------------------------------------- C13
\* C13: in whatever state stop() is called, it leaves the ready queue and the
\* pending buffer empty, nextIndex at 0, no unit playing, and the session id
\* as it was.
Playing(auds) == { a \in DOMAIN auds : auds[a] = "playing" }

C13_StopClears ==
    LET q == stop(AQ)
    IN  /\ q.queue = << >>
        /\ q.pendingAudios = Empty
        /\ q.nextIndex = 0
        /\ q.isPlaying = FALSE
        /\ q.currentAudio = Null
        /\ q.currentSessionId = currentSessionId
        /\ Playing(q.audios) = {}

\* ---------------------------------------------------------------- C14
\* C14: in whatever state, stop() called twice in a row leaves the queue as
\* stop() called once does: ready queue empty, nextIndex 0, nothing playing.
StopTwiceAsOnce == stop(stop(AQ)) = stop(AQ)

C14_StopIdempotent ==
    LET once == stop(AQ)
        twice == stop(once)
    IN  /\ StopTwiceAsOnce
        /\ once.queue = << >> /\ twice.queue = << >>
        /\ once.nextIndex = 0 /\ twice.nextIndex = 0
        /\ Playing(once.audios) = {} /\ Playing(twice.audios) = {}

\* ---------------------------------------------------------------- C15
\* C15: the ready queue is first-in first-out: within a session, the units
\* that began playback followed by the units still in the ready queue are the
\* units appended to it, in the order they were appended; and a step other
\* than startSession only removes entries at the head and adds entries at the
\* tail.
IsPrefix(s, t) == Len(s) <= Len(t) /\ SubSeq(t, 1, Len(s)) = s

C15_ReadyQueueFifo ==
    /\ [](released = started \o queue)
    /\ [][~SendMessage =>
             /\ IsPrefix(released, released')
             /\ IsPrefix(started, started')
             /\ \E k \in 0..Len(queue) :
                    IsPrefix(SubSeq(queue, k + 1, Len(queue)), queue')]_vars

\* Units 1 and 2 waited in the ready queue while unit 0 played; when it ended
\* unit 1 was taken from the head and unit 2 stayed.
C15_Witness ==
    /\ lastOp = Op("ended", currentSessionId, 0)
    /\ started = << Blob(currentSessionId, 0), Blob(currentSessionId, 1) >>
    /\ queue = << Blob(currentSessionId, 2) >>

\* ---------------------------------------------------------------- C16
\* C16: within a session nextIndex never decreases: every step other than a
\* startSession (an add, stale or not, a dropped job, a playback callback, a
\* stream step) leaves nextIndex where it was or advances it.
C16_NextIndexAdvances ==
    [][~SendMessage => nextIndex' >= nextIndex]_vars

\* nextIndex advanced to 3 by the adds of the session; a playback callback
\* ran after them and left it there.
C16_Witness ==
    /\ nextIndex = 3
    /\ lastOp = Op("ended", currentSessionId, 0)
    /\ Len(started) >= 2

\* ---------------------------------------------------------------- C17
\* C17: the pending buffer never holds an entry whose index is below
\* nextIndex.
C17_NoPendingBelowNext ==
    \A i \in DOMAIN pendingAudios : i >= nextIndex

\* Index 0 was released (nextIndex is 1) and index 2 waits for index 1.
C17_Witness ==
    /\ nextIndex = 1
    /\ DOMAIN pendingAudios = {2}
    /\ released = << Blob(currentSessionId, 0) >>

\* ---------------------------------------------------------------- C18
\* The state of the recognition session of socket s, from the socket's
\* readyState and the stop requests that reached it.
Connecting(s) == sockets[s] = "CONNECTING"
Listening(s) == sockets[s] = "OPEN" /\ stopRequested[s] = "no"
Finalizing(s) == sockets[s] = "OPEN" /\ stopRequested[s] = "listening"
Live(s) == sockets[s] \in {"CONNECTING", "OPEN"}

\* C18: while a recognition session is Connecting, Listening or Finalizing, a
\* start request opens no second channel and leaves the existing session as
\* it is (its socket stays the one asrSocket refers to).
C18_ReentrantStartRejected ==
    [][(\E s \in DOMAIN sockets : Live(s)) =>
          /\ DOMAIN sockets' = DOMAIN sockets
          /\ asrSocket' = asrSocket]_vars

\* ---------------------------------------------------------------- C19
\* C19: a frame is sent on a recognition channel only while its session is
\* Listening: the channel is open and no stop request has reached the
\* session; so no frame follows a stop request.
SentOn(s, data) ==
    /\ Len(wire'[s]) = Len(wire[s]) + 1
    /\ wire'[s][Len(wire'[s])] = data

C19_FramesOnlyWhileListening ==
    [][\A s \in DOMAIN sockets : SentOn(s, "frame") => Listening(s)]_vars

\* ---------------------------------------------------------------- C20
\* C20: a stop request that finds a session Listening sends the control
\* message "stop" on that session's channel and ends the forwarding of
\* frames: none is sent on the channel while the session is Finalizing; a
\* transcript update that arrives while Finalizing is still shown.
StopSentFromListening ==
    [][ReleaseMic =>
          \A s \in DOMAIN sockets :
              Listening(s) => SentOn(s, "stop") /\ isRecording' = FALSE]_vars

NoFrameWhileFinalizing ==
    [][\A s \in DOMAIN sockets : Finalizing(s) => ~SentOn(s, "frame")]_vars

UpdatesShownWhileFinalizing ==
    [][\A s \in DOMAIN sockets, text \in AsrTexts :
          (Finalizing(s) /\ text # << >> /\ Message(s, text, "update"))
              => chatInput' = text]_vars

C20_StopInListening ==
    /\ StopSentFromListening
    /\ NoFrameWhileFinalizing
    /\ UpdatesShownWhileFinalizing

\* ---------------------------------------------------------------- C21
\* C21: a final update closes the session it arrives on, and the text is sent
\* as a chat message exactly when the final transcript is not empty (blank
\* counts as empty): an empty final transcript submits nothing.
Submitted == currentSessionId' = currentSessionId + 1

C21_FinalClosesAndSubmits ==
    [][\A s \in DOMAIN sockets, text \in AsrTexts :
          Message(s, text, "final") =>
              /\ sockets'[s] \notin {"CONNECTING", "OPEN"}
              /\ Submitted <=> trim(text) # << >>]_vars

\* the two halves of C21, to tell them apart
FinalCloses ==
    [][\A s \in DOMAIN sockets, text \in AsrTexts :
          Message(s, text, "final") => sockets'[s] \notin {"CONNECTING", "OPEN"}]_vars

FinalSubmitsIffText ==
    [][\A s \in DOMAIN sockets, text \in AsrTexts :
          Message(s, text, "final") => (Submitted <=> trim(text) # << >>)]_vars

\* ---------------------------------------------------------------- C22
\* C22: an {error} message from the backend is shown to the user and closes
\* the session: the channel is no longer open, capture is off, and no frame
\* is sent while the error is what the status shows.
ErrorCloses ==
    [][\A s \in DOMAIN sockets :
          Message(s, << >>, "error") =>
              /\ asrStatus' = "Error"
              /\ sockets'[s] \notin {"CONNECTING", "OPEN"}
              /\ isRecording' = FALSE]_vars

NoFrameAfterError ==
    [][asrStatus = "Error" => \A s \in DOMAIN sockets : ~SentOn(s, "frame")]_vars

C22_ErrorClosesSession ==
    /\ ErrorCloses
    /\ NoFrameAfterError

\* ---------------------------------------------------------------- C23
\* C23: once a generation has read an {error} line, it sends no synthesis
\* request any more: not for the content lines that follow, and not for the
\* buffer left when the stream ends.
C23_ErrorAbortsSegmentation ==
    [][\A g \in DOMAIN gens :
          gens[g].lastLine = "error" => { j \in jobs' : j.sid = g } \subseteq jobs]_vars

\* the same for the flush alone: the {error} line is the last line of the stream
ErrorThenFlushSilent ==
    [][\A g \in DOMAIN gens :
          (gens[g].lastLine = "error" /\ gens'[g].st = "done") => jobs' = jobs]_vars

\* ---------------------------------------------------------------- C24
\* C24: however the samples are cut into blocks, after N samples the framer
\* has posted floor(N / bufferSize) frames of bufferSize samples, the k-th
\* holding the k-th run of bufferSize samples of the capture; a flush() then
\* posts one more frame holding the N mod bufferSize samples left, or nothing
\* when none is left.
FrameOf(first, n) == [k \in 1..n |-> convert(SampleAt(first + k - 1))]

C24_FrameSizing ==
    LET full == consumed \div bufferSize
        left == consumed % bufferSize
        after == processorFlush(AP)
    IN  /\ Len(posted) = full
        /\ \A j \in 1..full : posted[j] = FrameOf((j - 1) * bufferSize + 1, bufferSize)
        /\ bufferIndex = left
        /\ after.bufferIndex = 0
        /\ after.posted = IF left = 0 THEN posted
                          ELSE Append(posted, FrameOf(full * bufferSize + 1, left))

\* Two frames posted, one sample left: the blocks did not end on the frame
\* boundaries.
C24_Witness ==
    /\ Len(posted) = 2
    /\ bufferIndex = 1
    /\ consumed = 2 * bufferSize + 1

\* ---------------------------------------------------------------- C25
\* C25: a sample is clamped to [-1, 1], then scaled by 32768 when negative
\* and by 32767 otherwise: -1.5, -1, -0.5, 0, 0.5, 1, 1.5 give -32768, -32768,
\* -16384, 0, 16383, 32767, 32767; every value posted is one of these, within
\* [-32768, 32767].
ExpectedPcm == << -32768, -32768, -16384, 0, 16383, 32767, 32767 >>

C25_SampleScaling ==
    /\ \A j \in 1..Len(posted) : \A k \in 1..Len(posted[j]) :
          /\ posted[j][k] = ExpectedPcm[(((j - 1) * bufferSize + k - 1) % 7) + 1]
          /\ posted[j][k] >= -32768 /\ posted[j][k] <= 32767
    /\ \A i \in 0..(bufferIndex - 1) :
          buffer[i] = ExpectedPcm[((Len(posted) * bufferSize + i) % 7) + 1]
    /\ << convert(<< -3, 2 >>), convert(<< -1, 1 >>), convert(<< 0, 1 >>),
          convert(<< 1, 1 >>), convert(<< 3, 2 >>) >>
          = << -32768, -32768, 0, 32767, 32767 >>

\* A frame was posted; it begins with the seven values above.
C25_Witness ==
    /\ Len(posted) >= 1
    /\ SubSeq(posted[1], 1, 7) = ExpectedPcm

\* ---------------------------------------------------------------- C26
\* C26: when a unit that was started completes (onended) or fails (the media
\* fails while playing, cannot be loaded, or play() is refused), the head of
\* the ready queue, if there is one, is taken off the queue and started; with
\* an empty queue nothing is started and the queue goes idle. The unit that
\* ended or failed is not put back in the queue, is not started again and
\* keeps no Audio element, and the step never leaves a non-empty ready queue
\* with no unit starting or playing.
PlaybackOver(a) == Ended(a) \/ DecodeError(a) \/ LoadFailed(a) \/ PlayBlocked(a)

Range(s) == { s[i] : i \in DOMAIN s }

Sounding(auds) == { a \in DOMAIN auds : auds[a] \in {"starting", "playing"} }

C26_NextStartsAfterEndOrError ==
    [][\A a \in DOMAIN audios : PlaybackOver(a) =>
          /\ queue # << >> =>
                /\ Len(started') > Len(started)
                /\ started'[Len(started) + 1] = Head(queue)
                /\ \E k \in 1..Len(queue) : queue' = SubSeq(queue, k + 1, Len(queue))
          /\ queue = << >> => (~isPlaying' /\ started' = started /\ queue' = << >>)
          /\ IsPrefix(started, started')
          /\ a \notin Range(queue')
          /\ a \notin Range(SubSeq(started', Len(started) + 1, Len(started')))
          /\ a \notin DOMAIN audios'
          /\ queue' # << >> => Sounding(audios') # {}]_vars

\* The first unit of the session failed while playing; the second was started
\* from the callback and the third still waits in the ready queue.
C26_Witness ==
    /\ lastOp = Op("error", currentSessionId, 0)
    /\ started = << Blob(currentSessionId, 0), Blob(currentSessionId, 1) >>
    /\ queue = << Blob(currentSessionId, 2) >>
    /\ Blob(currentSessionId, 1) \in Sounding(audios)

\* ---------------------------------------------------------------- C27
\* C27: a notification of a unit aborted by stop() or startSession() (here the
\* rejection of the play() promise of an element paused while it was
\* starting) has no side effect: the playing flag and the ready queue stay as
\* they were and no unit is started.
C27_AbortedCallbacksInert ==
    [][\A a \in DOMAIN audios : AbortRejected(a) =>
          /\ isPlaying' = isPlaying
          /\ queue' = queue
          /\ started' = started
          /\ Sounding(audios') = Sounding(audios)]_vars

\* ---------------------------------------------------------------- C28
\* C28: the session is checked when a job is dispatched: once a newer session
\* has been started, a generation of an older session sends no further
\* synthesis request, whatever fragments it still receives.
C28_NoDispatchAfterNewSession ==
    [][\A g \in DOMAIN gens :
          g # currentSessionId => { j \in jobs' : j.sid = g } \subseteq jobs]_vars

\* ---------------------------------------------------------------- C29
\* C29: each unit is delivered at most once: no blob is appended twice to the
\* ready queue nor started twice (the blobs released and started all belong
\* to the current session, and those of a session are all different), and no
\* synthesis request is sent again: a request sent by a generation carries an
\* index the generation has not used yet, so never one of a job that failed.
NoDuplicates(s) == \A i, k \in DOMAIN s : s[i] = s[k] => i = k

C29_AtMostOnce ==
    /\ [](/\ NoDuplicates(released)
          /\ NoDuplicates(started)
          /\ \A b \in Range(released) \cup Range(started) : b[1] = currentSessionId)
    /\ [][\A j \in jobs' \ jobs :
             /\ j.idx >= gens[j.sid].sentenceIndex
             /\ ~(j.sid = currentSessionId /\ j.idx \in dropped)]_vars

\* The job of index 1 failed and was not sent again; units 0 and 2 arrived,
\* unit 0 was released and started once, unit 2 waits in the pending buffer.
C29_Witness ==
    /\ dropped = {1}
    /\ \A j \in jobs : j.sid # currentSessionId
    /\ released = << Blob(currentSessionId, 0) >>
    /\ started = << Blob(currentSessionId, 0) >>
    /\ DOMAIN pendingAudios = {2}
    /\ gens[currentSessionId].sentenceIndex = 3

\* ---------------------------------------------------------------- C30
\* C30: a transcript update that carries text replaces the text of the input
\* box: after it the box holds the text of that update, whatever the box held
\* before; so the box never holds anything but the text of one message (or
\* nothing), never several texts joined.
C30_UpdateOverwrites ==
    /\ [][\A s \in DOMAIN sockets, text \in AsrTexts \ {<< >>} :
             Message(s, text, "update") => chatInput' = text]_vars
    /\ [](chatInput \in AsrTexts)

\* The box shows the text of an update while the session is still listening.
C30_Witness ==
    /\ chatInput = << "h", "i" >>
    /\ isRecording
    /\ asrSocket # Undefined /\ sockets[asrSocket] = "OPEN"
    /\ finalHeard = << >>

\* ---------------------------------------------------------------- C31
\* C31: a channel close, whatever the state of its session (Connecting,
\* Listening, Finalizing), ends the session: right after it the channel is
\* CLOSED, capture is off (isRecording is false and the audio context made
\* for the session is closed), nothing was sent by the close and no channel
\* or media request was opened by it (no reconnect); and from then on the
\* channel stays CLOSED and carries no further frame or control message.
CloseEndsSession ==
    [][\A s \in DOMAIN sockets : SocketClose(s) =>
          /\ sockets'[s] = "CLOSED"
          /\ ~isRecording'
          /\ audioContext' = Undefined
          /\ wire' = wire
          /\ DOMAIN sockets' = DOMAIN sockets
          /\ mediaRequests' = mediaRequests]_vars

CaptureOffAfterClose ==
    [][\A s \in DOMAIN sockets : SocketClose(s) =>
          (s \in DOMAIN contexts => contexts'[s].closed)]_vars

ClosedChannelSilent ==
    [][\A s \in DOMAIN sockets : sockets[s] = "CLOSED" =>
          /\ sockets'[s] = "CLOSED"
          /\ wire'[s] = wire[s]]_vars

C31_CloseEndsSession ==
    /\ CloseEndsSession
    /\ CaptureOffAfterClose
    /\ ClosedChannelSilent

\* ---------------------------------------------------------------- C32
\* C32: once the recognition channel has reported a failure (the status shows
\* "Error"), the error stays the outcome of the session: no later step of the
\* session, the close of the channel included, replaces it by an idle or
\* normal status; only a new start request's session may change the status.
C32_ErrorIsTerminal ==
    [][(asrStatus = "Error" /\ DOMAIN sockets' = DOMAIN sockets)
          => asrStatus' = "Error"]_vars

\* ---------------------------------------------------------------- C33
\* C33: an undecodable message is ignored, alone.  An undecodable line of the
\* text stream leaves the generation's text, segmenter buffer and unit index
\* as they were, sends no synthesis request and leaves the session id alone;
\* the lines after it are segmented as if it had not been there: buffer and
\* unit index are always those of the text received so far, segmented in one
\* piece.  An undecodable recognition message changes nothing at all.
MalformedLineIgnored ==
    [][\A g \in DOMAIN gens : Ignored(g, "malformed") =>
          /\ gens'[g].fullText = gens[g].fullText
          /\ gens'[g].buf = gens[g].buf
          /\ gens'[g].sentenceIndex = gens[g].sentenceIndex
          /\ gens'[g].st = gens[g].st
          /\ jobs' = jobs
          /\ currentSessionId' = currentSessionId]_vars

LaterLinesAsUsual ==
    \A g \in DOMAIN gens :
        gens[g].st = "streaming" =>
            LET whole == feed(<< >>, 0, gens[g].fullText)
            IN  /\ gens[g].buf = whole.buf
                /\ gens[g].sentenceIndex = whole.sentenceIndex
                /\ gens[g].fetches = Len(whole.out)

MalformedMessageIgnored ==
    [][\A s \in DOMAIN sockets : Message(s, << >>, "malformed") => UNCHANGED vars]_vars

C33_MalformedIgnored ==
    /\ MalformedLineIgnored
    /\ []LaterLinesAsUsual
    /\ MalformedMessageIgnored

\* The stream was started by a final transcript; after one unit was emitted
\* and with text left in the buffer, an undecodable line arrived.
C33_Witness ==
    /\ finalHeard = << "h", "i" >>
    /\ currentSessionId = 1
    /\ gens[1].lastLine = "malformed"
    /\ gens[1].sentenceIndex = 1
    /\ gens[1].buf # << >>

\* ---------------------------------------------------------------- C34
\* C34: a frame, once posted, is a copy of its own: whatever is written to
\* the buffer afterwards, the frames posted so far stay as they were posted.
\* After an emission the offset is 0 (flush() leaves it at 0, and a block
\* that ends exactly on a frame boundary leaves it at 0), and between calls
\* of process() the offset is within 0 .. bufferSize - 1.
C34_FramesImmutableOffsetReset ==
    /\ [][IsPrefix(posted, posted')]_vars
    /\ [](bufferIndex \in 0..(bufferSize - 1))
    /\ [](processorFlush(AP).bufferIndex = 0)
    /\ [][\A len \in BlockLengths :
             (Process(len) /\ bufferIndex + len = bufferSize) =>
                 /\ bufferIndex' = 0
                 /\ posted' = Append(posted, slice(buffer', bufferSize))]_vars

\* Two frames were posted and the offset is back at 0; the buffer was
\* rewritten with the second frame, and the first frame posted is still the
\* first 512 samples.
C34_Witness ==
    /\ Len(posted) = 2
    /\ bufferIndex = 0
    /\ slice(buffer, bufferSize) = posted[2]
    /\ posted[1] # posted[2]
    /\ posted[1] = FrameOf(1, bufferSize)

\* ---------------------------------------------------------------- C35
\* C35: whenever the queue is at rest (between the handlers: after any add,
\* startSession, stop or playback callback), a non-empty ready queue means
\* that a unit is playing: the playing flag is set and some Audio element is
\* starting or playing.
NeverIdleWithAudioWaiting == queue # << >> => isPlaying

SomethingSoundsWhileWaiting == queue # << >> => Sounding(audios) # {}

C35_NeverIdleWithAudioWaiting ==
    /\ NeverIdleWithAudioWaiting
    /\ SomethingSoundsWhileWaiting
    /\ stop(AQ).queue = << >>

\* A play() was refused; the callback started the next unit at once and the
\* third still waits in the ready queue while the second is starting.
C35_Witness ==
    /\ lastOp = Op("blocked", currentSessionId, 0)
    /\ queue = << Blob(currentSessionId, 2) >>
    /\ isPlaying
    /\ Sounding(audios) = { Blob(currentSessionId, 1) }

\* ---------------------------------------------------------------- C36
\* C36: release is maximal: between the handlers (so after any add of the
\* current session has completed) the pending buffer holds no entry for
\* nextIndex; the add that fills the gap releases every consecutive blob
\* that was waiting behind it.
C36_ReleaseMaximal ==
    /\ [](nextIndex \notin DOMAIN pendingAudios)
    /\ [][\A j \in jobs :
             (TtsOk(j) /\ j.sid = currentSessionId) =>
                 /\ nextIndex' \notin DOMAIN pendingAudios'
                 /\ \A i \in nextIndex..(nextIndex' - 1) :
                       i \in DOMAIN pendingAudios \cup {j.idx}
                 /\ Len(released') = Len(released) + (nextIndex' - nextIndex)]_vars

\* Units 1 and 2 waited in the pending buffer; the add of unit 0 released the
\* three of them in one go.
C36_Witness ==
    /\ lastOp = Op("add", currentSessionId, 0)
    /\ nextIndex = 3
    /\ pendingAudios = Empty
    /\ released = << Blob(currentSessionId, 0), Blob(currentSessionId, 1),
                     Blob(currentSessionId, 2) >>

\* ---------------------------------------------------------------- C37
\* C37: a final transcript that arrives on a channel closes that channel and
\* ends that channel's session (its audio context is closed), also when
\* another session was started meanwhile, whose channel and capture it
\* leaves alone; and no channel submits twice: its final transcript closes
\* it, a channel that was closed never opens again, and only an open channel
\* delivers messages.
FinalClosesOwnChannel ==
    [][\A s \in DOMAIN sockets, text \in AsrTexts :
          Message(s, text, "final") =>
              /\ sockets'[s] \in {"CLOSING", "CLOSED"}
              /\ s \in DOMAIN contexts => contexts'[s].closed
              /\ \A t \in DOMAIN sockets \ {s} :
                    /\ sockets'[t] = sockets[t]
                    /\ t \in DOMAIN contexts => contexts'[t] = contexts[t]]_vars

ClosedForGood ==
    [][\A s \in DOMAIN sockets :
          sockets[s] \in {"CLOSING", "CLOSED"} => sockets'[s] \in {"CLOSING", "CLOSED"}]_vars

C37_FinalActsOnOwnChannel ==
    /\ FinalClosesOwnChannel
    /\ ClosedForGood

\* ---------------------------------------------------------------- C38
\* C38: framing loses, repeats and reorders nothing: the posted frames put
\* end to end, followed by the samples still in the buffer, are the
\* conversions of the samples given so far, in the order they were given.
RECURSIVE Concat(_)
Concat(frames) ==
    IF frames = << >> THEN << >> ELSE Head(frames) \o Concat(Tail(frames))

C38_NoSampleLost ==
    Concat(posted) \o slice(buffer, bufferIndex)
        = [n \in 1..consumed |-> convert(SampleAt(n))]

\* 642 samples given: one frame posted and 130 samples waiting in the buffer.
C38_Witness ==
    /\ consumed = 642
    /\ Len(posted) = 1
    /\ bufferIndex = 130

\* ---------------------------------------------------------------- C39
\* C39: after each content line the segmenter's buffer holds no boundary
\* character; every unit sent before the end of the stream ends with a
\* boundary character and holds no boundary character before its end.
HasBoundary(t) == \E i \in DOMAIN t : t[i] \in Punctuations

BufferHoldsNoBoundary ==
    \A g \in DOMAIN gens : gens[g].st = "streaming" => ~HasBoundary(gens[g].buf)

UnitsEndAtBoundary ==
    \A g \in DOMAIN gens :
        gens[g].st = "streaming" =>
            \A j \in JobsOf(g) :
                /\ j.text # << >>
                /\ j.text[Len(j.text)] \in Punctuations
                /\ ~HasBoundary(SubSeq(j.text, 1, Len(j.text) - 1))

C39_BoundaryFreeBuffer ==
    /\ BufferHoldsNoBoundary
    /\ UnitsEndAtBoundary

\* C39 as the code has it: a unit is the text up to and including a boundary
\* character with the whitespace around it removed, and the line break is
\* both a boundary and whitespace.  So the buffer holds no boundary character
\* after a content line; a unit sent before the end of the stream is not
\* empty, holds no line break and no boundary character before its last
\* character, and ends with a boundary character unless the boundary that
\* closed it was a line break: there are never more units without a final
\* boundary character than line breaks received.
C39_UnitsCutAtBoundary ==
    /\ BufferHoldsNoBoundary
    /\ \A g \in DOMAIN gens :
          gens[g].st = "streaming" =>
              /\ \A j \in JobsOf(g) :
                    /\ j.text # << >>
                    /\ ~HasBoundary(SubSeq(j.text, 1, Len(j.text) - 1))
                    /\ j.text[Len(j.text)] # NL
              /\ Cardinality({ j \in JobsOf(g) : ~HasBoundary(j.text) })
                    <= Cardinality({ i \in DOMAIN gens[g].fullText :
                                        gens[g].fullText[i] = NL })

\* "a", a line break, "Hello, ": the units "a" (closed by the line break,
\* which the trim removed) and "Hello,"; the blank after the comma waits in
\* the buffer.
C39_Witness ==
    /\ 1 \in DOMAIN gens
    /\ gens[1].st = "streaming"
    /\ gens[1].fullText = << "a", NL >> \o Hello
    /\ { j.text : j \in JobsOf(1) } = { << "a" >>, << "H", "e", "l", "l", "o", "," >> }
    /\ gens[1].buf = << " " >>

====
